---------------------------- MODULE Spec2Model ----------------------------
(***************************************************************************)
(* Container build orchestration of the kubernetes provider                *)
(* (k8sGetContainerBuildStatus, k8sBuildContainer and the handlers they    *)
(* dispatch to), together with the three containers of the kaniko builder  *)
(* pod and their file-flag handshake.                                      *)
(*                                                                         *)
(* One behaviour is one call of getBuildStatus or of build, for one module *)
(* and one provider configuration, both drawn by Init.  `calls` records,   *)
(* in order, every operation the handler performs outside its own process. *)
(*                                                                         *)
(* The module also holds BufferedEventStream (platform/buffered-event-     *)
(* stream.ts), an object of its own: its fields are the stream variables,  *)
(* which no step of a build touches, and its methods are the actions of    *)
(* StreamSpec, FairStreamSpec (with the timer's fairness) and FlushSpec    *)
(* (flushes of buffers that hold more than one batch).  RunTestCommand     *)
(* (commands/run/test) is the last part, with RunTestSpec.                 *)
(***************************************************************************)
EXTENDS Naturals, Sequences, FiniteSets

VARIABLES
  buildMode,           \* provider.config.buildMode
  module,              \* the module: its version string and build timeout
  hasDockerfile,       \* containerHelpers.hasDockerfile(module)
  deploymentRegistry,  \* provider.config.deploymentRegistry ("none" = undefined)
  clusterType,         \* provider.config.clusterType
  op,                  \* the exported function that was called
  pc,                  \* position of the handler
  calls,               \* operations performed so far, in order
  res,                 \* result of the last exec / dockerCli / pod run
  buildRes,            \* remoteBuild's buildRes: result of the build command exec
  outcome,             \* what the call returned or threw
  attempts,            \* rsync transfers started by pRetry
  buildLog,            \* remoteBuild's buildLog
  podName,             \* name of the daemon pod found by getBuilderPodName
  waits,               \* blocking remote calls made so far: call, target, timeout
  podPhase,            \* the kaniko builder pod: "none", "running", "deleted"
  kanikoPc,            \* position of the kaniko container's shell script
  supportPc,           \* position of the support container's shell script
  proxy,               \* the socat process of the proxy container
  files,               \* marker files in the comms volume (/.garden/comms)
  exitcode,            \* $exitcode of the kaniko container's script
  podLog,              \* output of the kaniko / skopeo container so far
  skopeoPc,            \* position of the skopeo container's shell script
  workingCopyId,       \* ctx.workingCopyId
  syncArgs,            \* remoteBuild's src and destination arguments of rsync
  contextPath,         \* remoteBuild's contextPath, as given to the builder
  clientAuthToken,     \* BufferedEventStream.clientAuthToken ("" = undefined)
  platformUrl,         \* BufferedEventStream.platformUrl ("" = undefined)
  intervalId,          \* BufferedEventStream.intervalId
  timers,              \* one entry per setInterval call: "active" or "cleared"
  eventBus,            \* BufferedEventStream.eventBus
  bufferedEvents,      \* BufferedEventStream.bufferedEvents
  bufferedLogEntries,  \* BufferedEventStream.bufferedLogEntries
  flushEventsTestHandler,      \* whether the test handler for events is set
  flushLogEntriesTestHandler,  \* whether the test handler for log entries is set
  delivered,           \* batches passed to a test handler or POSTed, in order
  streamed,            \* items pushed so far: [events |-> n, logEntries |-> m]
  runInput,            \* RunTestCommand.action: what args, opts and the graph hold
  runPc,               \* RunTestCommand.action: position
  runCalls,            \* RunTestCommand.action: calls made so far, in order
  runOutcome           \* RunTestCommand.action: what it returned or threw

buildVars == << buildMode, module, hasDockerfile, deploymentRegistry, clusterType, op, pc,
                calls, res, buildRes, outcome, attempts, buildLog, podName, waits,
                podPhase, kanikoPc, supportPc, proxy, files, exitcode, podLog, skopeoPc,
                workingCopyId, syncArgs, contextPath >>

streamVars == << clientAuthToken, platformUrl, intervalId, timers, eventBus, bufferedEvents,
                 bufferedLogEntries, flushEventsTestHandler, flushLogEntriesTestHandler,
                 delivered, streamed >>

runTestVars == << runInput, runPc, runCalls, runOutcome >>

vars == << buildVars, streamVars, runTestVars >>

\* what a call is given; with it the event stream and the run test command,
\* which a build leaves alone
config == << buildMode, module, hasDockerfile, deploymentRegistry, clusterType, op,
             workingCopyId, streamVars, runTestVars >>

podVars == << podPhase, kanikoPc, supportPc, proxy, files, exitcode, podLog, skopeoPc >>

-----------------------------------------------------------------------------
(* Bounds *)

\* longest captured output of the manifest inspection tool, in phrases
MaxOut == 2

\* longest captured output of one build or push command, in phrases
MaxLog == 1

\* events and log entries streamed to one BufferedEventStream
MaxEvents == 2

MaxLogEntries == 2

\* interval timers one BufferedEventStream starts
MaxTimers == 2

\* most items held in one buffer of a BufferedEventStream when a flush begins
MaxBuffered == 101

-----------------------------------------------------------------------------
(* Values *)

ContainerBuildMode == {"local-docker", "cluster-docker", "kaniko"}

RemoteModes == {"cluster-docker", "kaniko"}

\* undefined, a registry outside the cluster, the in-cluster registry
RegistryKinds == {"none", "external", "in-cluster"}

ClusterTypes == {"kind", "microk8s", "generic"}

\* module.version.versionString, module.spec.build.timeout (seconds) and
\* module.name; a name or an id is a string, kept as its sequence of characters
Modules ==
  {[version |-> "v-1", timeout |-> 600, name |-> << "b" >>],
   [version |-> "v-2", timeout |-> 1200, name |-> << "b", "b" >>]}

ModuleNames == {m.name : m \in Modules}

\* ctx.workingCopyId of the callers that share the cluster
WorkingCopyIds == {<< "a" >>, << "a", "b" >>}

\* pod.metadata.name of the running garden-docker-daemon pod
DaemonPods == {"garden-docker-daemon-a", "garden-docker-daemon-b"}

\* p-retry option `retries` of the rsync transfer
Retries == 3

\* timeout of the manifest inspection exec in the daemon pod (seconds)
ProbeExecTimeout == 300

\* timeout of the skopeo pod run (seconds)
SkopeoPodTimeout == 60

\* mutant: the push is given the module's build timeout
PushTimeout_BuildTimeout == module.timeout

\* timeout of the push exec in the daemon pod (seconds)
PushTimeout == 300

\* output is modelled as a sequence of phrases; a marker is one phrase
ProbeWords == {"no such manifest", "manifest unknown", "connection refused"}

LogWords == {"step", "denied"}

SeqsUpTo(S, n) == UNION {[1..k -> S] : k \in 0..n}

ProbeOutputs == SeqsUpTo(ProbeWords, MaxOut)

LogOutputs == SeqsUpTo(LogWords, MaxLog)

\* String.prototype.includes on captured output
Includes(text, marker) == \E i \in 1..Len(text) : text[i] = marker

NoRes == [code |-> 0, stdout |-> << >>, stderr |-> << >>]

\* what a call returned or threw; log is buildLog of a BuildResult and the
\* output carried by an error
Outcome(k, r, e, l, fetched, fresh, v) ==
  [kind |-> k, ready |-> r, error |-> e, log |-> l,
   fetched |-> fetched, fresh |-> fresh, version |-> v]

NoOutcome == Outcome("none", FALSE, "", << >>, FALSE, FALSE, "")

Ready(r) == Outcome("status", r, "", << >>, FALSE, FALSE, "")

Threw(e, l) == Outcome("error", FALSE, e, l, FALSE, FALSE, "")

\* remoteBuild's `return {}`
Empty == Outcome("empty", FALSE, "", << >>, FALSE, FALSE, "")

\* lines 575-580: remoteBuild's result
BuildResult(l) == Outcome("result", FALSE, "", l, FALSE, TRUE, module.version)

\* buildContainerModule's result: {fetched: true} without a Dockerfile,
\* {buildLog, fresh: true, details} with one
LocalBuildResult(l) == Outcome("result", FALSE, "", l, ~hasDockerfile, hasDockerfile, "")

\* a blocking remote call: timeout 0 stands for no timeout given
Wait(call, target, timeout) == [call |-> call, target |-> target, timeout |-> timeout]

Call(name) == calls' = Append(calls, name)

NoSyncArgs == [src |-> << >>, destination |-> << >>]

\* mutant: the destination is the root of the volume for every working copy
RsyncArgs_SharedDestination(wc, name) ==
  [src |-> << "buildRoot", "/", ".", "/" >> \o name \o << "/" >>,
   destination |-> << "rsync://localhost/volume/" >>]

\* lines 450-454: src and destination of the transfer, for a module name and a
\* working copy id; the build root and the rsync URL up to the volume are one
\* piece each
RsyncArgs(wc, name) ==
  [src |-> << "buildRoot", "/", ".", "/" >> \o name \o << "/" >>,
   destination |-> << "rsync://localhost/volume/" >> \o wc \o << "/" >>]

\* lines 451-452 and 457: with --relative rsync creates, below the destination,
\* the part of src that follows "/./"
RsyncTargetDir(args) ==
  LET dot == CHOOSE i \in 1..Len(args.src) : args.src[i] = "."
  IN  args.destination \o SubSeq(args.src, dot + 2, Len(args.src))

\* mutant: the id and the name are joined without a separator
ContextPath_NoSeparator(wc, name) == << "/garden-build/" >> \o wc \o name \o << "/" >>

\* line 496: contextPath
ContextPath(wc, name) == << "/garden-build/" >> \o wc \o << "/" >> \o name \o << "/" >>

\* the directory of the shared volume that a path names: the volume is the
\* rsync module "volume" of the sync service and is mounted at /garden-build
\* in the builder (line 713)
VolumeDir(path) == SubSeq(path, 2, Len(path))

Called(name) == \E i \in 1..Len(calls) : calls[i] = name

-----------------------------------------------------------------------------
(* Initial state: a module, a provider configuration and the call made *)

\* the state of a call before its first step
Started ==
  /\ pc = "dispatch"
  /\ calls = << >>
  /\ res = NoRes
  /\ buildRes = NoRes
  /\ outcome = NoOutcome
  /\ attempts = 0
  /\ buildLog = << >>
  /\ podPhase = "none"
  /\ kanikoPc = "none"
  /\ supportPc = "none"
  /\ proxy = "none"
  /\ files = {}
  /\ exitcode = 0
  /\ podLog = << >>
  /\ skopeoPc = "none"
  /\ podName = ""
  /\ waits = << >>
  /\ syncArgs = NoSyncArgs
  /\ contextPath = << >>

\* values of BufferedEventStream.intervalId: not assigned, null, or the timer
\* that setInterval returned
Undefined == [kind |-> "undefined", timer |-> 0]

Null == [kind |-> "null", timer |-> 0]

Timer(i) == [kind |-> "timer", timer |-> i]

\* lines 71-79: the stream after its constructor; intervalId is not assigned
StreamConstructed ==
  /\ clientAuthToken = ""
  /\ platformUrl = ""
  /\ intervalId = Undefined
  /\ timers = << >>
  /\ eventBus = "undefined"
  /\ bufferedEvents = << >>
  /\ bufferedLogEntries = << >>
  /\ flushEventsTestHandler = FALSE
  /\ flushLogEntriesTestHandler = FALSE
  /\ delivered = << >>
  /\ streamed = [events |-> 0, logEntries |-> 0]

\* args and opts of `garden run test` and what the config graph holds for
\* them: whether the module has a test of that name, module.disabled and
\* test.disabled
RunInputs ==
  [found : BOOLEAN, moduleDisabled : BOOLEAN, testDisabled : BOOLEAN,
   force : BOOLEAN, forceBuild : BOOLEAN, interactive : BOOLEAN]

\* the command was not invoked
NoRunTest ==
  /\ runInput = [found |-> FALSE, moduleDisabled |-> FALSE, testDisabled |-> FALSE,
                 force |-> FALSE, forceBuild |-> FALSE, interactive |-> FALSE]
  /\ runPc = "none"
  /\ runCalls = << >>
  /\ runOutcome = "none"

Init ==
  /\ buildMode \in ContainerBuildMode
  /\ module \in Modules
  /\ hasDockerfile \in BOOLEAN
  /\ deploymentRegistry \in RegistryKinds
  \* only the local-docker handlers read clusterType (lines 244, 404-406)
  /\ clusterType \in (IF buildMode = "local-docker" THEN ClusterTypes ELSE {"generic"})
  /\ op \in {"getBuildStatus", "build"}
  /\ workingCopyId = << "a" >>
  /\ Started
  /\ StreamConstructed
  /\ NoRunTest

Return(o) ==
  /\ pc' = "done"
  /\ outcome' = o

-----------------------------------------------------------------------------
(* getBuildStatus *)

\* mutant: the Dockerfile test is dropped and every module goes to its handler
k8sGetContainerBuildStatus_NoDockerfileTest ==
  /\ op = "getBuildStatus"
  /\ pc = "dispatch"
  /\ pc' = buildMode
  /\ UNCHANGED << config, syncArgs, contextPath, buildRes, podName, waits, calls, res, outcome, attempts, buildLog, podVars >>

k8sGetContainerBuildStatus ==
  /\ op = "getBuildStatus"
  /\ pc = "dispatch"
  /\ \/ /\ ~hasDockerfile
        /\ Return(Ready(TRUE))
     \/ /\ hasDockerfile
        /\ pc' = buildMode
        /\ outcome' = outcome
  /\ UNCHANGED << config, syncArgs, contextPath, buildRes, podName, waits, calls, res, attempts, buildLog, podVars >>

\* lines 239-247: classification of the local `docker manifest inspect`
LocalDockerClassify(r) ==
  IF r.code # 0 /\ ~Includes(r.stdout, "no such manifest")
  THEN Threw("RuntimeError", r.stdout)
  ELSE Ready(r.code = 0)

\* containerHelpers.dockerCli returns {code, output}: output is kept in stdout
DockerCliResults ==
  {[code |-> c, stdout |-> o, stderr |-> << >>] : c \in {0, 1}, o \in ProbeOutputs}

\* helpers.imageExistsLocally answered, as recorded in calls
imageExistsLocally(exists) ==
  IF exists THEN "imageExistsLocally:true" ELSE "imageExistsLocally:false"

\* getContainerBuildStatus of the container plugin, as its unit test fixes it:
\* ready is what helpers.imageExistsLocally answers
getContainerBuildStatus(exists) == Ready(exists)

\* mutant: the test of deploymentRegistry is dropped and the registry is
\* always probed
LocalDockerStatus_AlwaysProbes ==
  /\ op = "getBuildStatus"
  /\ pc = "local-docker"
  /\ \E r \in DockerCliResults :
       /\ res' = r
       /\ Call("docker manifest inspect")
       /\ waits' = Append(waits, Wait("manifest inspect", "local docker", 0))
       /\ Return(LocalDockerClassify(r))
  /\ UNCHANGED << config, syncArgs, contextPath, buildRes, podName, attempts, buildLog, podVars >>

LocalDockerStatus ==
  /\ op = "getBuildStatus"
  /\ pc = "local-docker"
  /\ \/ /\ deploymentRegistry # "none"
        /\ \E r \in DockerCliResults :
             /\ res' = r
             /\ Call("docker manifest inspect")
             /\ waits' = Append(waits, Wait("manifest inspect", "local docker", 0))
             /\ Return(LocalDockerClassify(r))
     \/ /\ deploymentRegistry = "none"
        /\ clusterType = "microk8s"
        /\ calls' = calls \o << "getLocalImageId", "getMicrok8sImageStatus" >>
        /\ \E r \in BOOLEAN : Return(Ready(r))
        /\ res' = res
        /\ waits' = waits
     \/ /\ deploymentRegistry = "none"
        /\ clusterType # "microk8s"
        /\ \E exists \in BOOLEAN :
             /\ calls' = calls \o << "getContainerBuildStatus", imageExistsLocally(exists) >>
             /\ Return(getContainerBuildStatus(exists))
        /\ res' = res
        /\ waits' = waits
  /\ UNCHANGED << config, syncArgs, contextPath, buildRes, podName, attempts, buildLog, podVars >>

\* getBuilderPodName (lines 629-641): the running pod of garden-docker-daemon
getBuilderPodName(next) ==
  /\ Call("getRunningPodInDeployment:garden-docker-daemon")
  /\ \/ /\ podName' \in DaemonPods
        /\ pc' = next
        /\ outcome' = outcome
     \/ /\ podName' = podName
        /\ Return(Threw("PluginError:builder", << >>))

\* kubectl.exec results of the manifest inspection in the daemon pod
ProbeExecResults ==
  {[code |-> c, stdout |-> o, stderr |-> e] :
     c \in {0, 1}, o \in ProbeOutputs, e \in ProbeOutputs}

\* mutant: every non-zero exit is taken for an absent image
ClusterDockerClassify_AnyFailureAbsent(r) == Ready(r.code = 0)

\* lines 275-284: classification of `docker manifest inspect` run in the daemon pod
ClusterDockerClassify(r) ==
  IF r.code # 0 /\ ~Includes(r.stderr, "no such manifest")
  THEN Threw("RuntimeError", r.stdout \o r.stderr)
  ELSE Ready(r.code = 0)

\* lines 258-270 of buildStatusHandlers["cluster-docker"]
ClusterDockerStatusCheck ==
  /\ op = "getBuildStatus"
  /\ pc = "cluster-docker"
  /\ \/ /\ deploymentRegistry = "none"
        /\ Return(Threw("InternalError", << >>))
     \/ /\ deploymentRegistry # "none"
        /\ pc' = "status:getBuilderPodName"
        /\ outcome' = outcome
  /\ UNCHANGED << config, syncArgs, contextPath, buildRes, podName, waits, calls, res, attempts, buildLog, podVars >>

\* line 272
ClusterDockerStatusPod ==
  /\ op = "getBuildStatus"
  /\ pc = "status:getBuilderPodName"
  /\ getBuilderPodName("status:execInBuilder")
  /\ UNCHANGED << config, syncArgs, contextPath, buildRes, waits, res, attempts, buildLog, podVars >>

\* lines 273-284: execInBuilder with ignoreError, timeout 300
ClusterDockerStatusExec ==
  /\ op = "getBuildStatus"
  /\ pc = "status:execInBuilder"
  /\ Call("execInBuilder:manifest inspect")
  /\ waits' = Append(waits, Wait("manifest inspect", podName, ProbeExecTimeout))
  /\ \/ \E r \in ProbeExecResults :
          /\ res' = r
          /\ Return(ClusterDockerClassify(r))
     \/ /\ res' = res
        /\ Return(Threw("ExecError", << >>))
  /\ UNCHANGED << config, syncArgs, contextPath, buildRes, podName, attempts, buildLog, podVars >>

\* runner.startAndWait of the skopeo pod returns {success, log}; kept in res as
\* code = 0 for success: true, and the log in stdout
ProbePodResults ==
  {[code |-> c, stdout |-> o, stderr |-> << >>] : c \in {0, 1}, o \in ProbeOutputs}

\* mutant: the marker in the log decides, whatever the pod run's success
KanikoClassify_MarkerMeansAbsent(r) ==
  IF Includes(r.stdout, "manifest unknown")
  THEN Ready(FALSE)
  ELSE IF r.code = 0 THEN Ready(TRUE) ELSE Threw("RuntimeError", r.stdout)

\* lines 341-349: classification of the skopeo pod run
KanikoClassify(r) ==
  IF ~(r.code = 0) /\ ~Includes(r.stdout, "manifest unknown")
  THEN Threw("RuntimeError", r.stdout)
  ELSE Ready(r.code = 0)

\* mutant: the deploymentRegistry test is dropped
KanikoStatusCheck_NoRegistryTest ==
  /\ op = "getBuildStatus"
  /\ pc = "kaniko"
  /\ pc' = "status:setup"
  /\ UNCHANGED << config, syncArgs, contextPath, buildRes, podName, waits, calls, res, outcome, attempts, buildLog, podVars >>

\* lines 287-296 of buildStatusHandlers["kaniko"]
KanikoStatusCheck ==
  /\ op = "getBuildStatus"
  /\ pc = "kaniko"
  /\ \/ /\ deploymentRegistry = "none"
        /\ Return(Threw("InternalError", << >>))
     \/ /\ deploymentRegistry # "none"
        /\ pc' = "status:setup"
        /\ outcome' = outcome
  /\ UNCHANGED << config, syncArgs, contextPath, buildRes, podName, waits, calls, res, attempts, buildLog, podVars >>

\* lines 298-331
KanikoStatusSetup ==
  /\ op = "getBuildStatus"
  /\ pc = "status:setup"
  /\ calls' = calls \o << "KubeApi.factory", "getAppNamespace", "getSystemNamespace" >>
  /\ pc' = "status:startAndWait"
  /\ UNCHANGED << config, syncArgs, contextPath, buildRes, podName, waits, res, outcome, attempts, buildLog, podVars >>

\* lines 298-339: the skopeo pod is created, no container has run yet
KanikoStatusRun ==
  /\ op = "getBuildStatus"
  /\ pc = "status:startAndWait"
  /\ Call("startAndWait:skopeo")
  /\ waits' = Append(waits, Wait("startAndWait:skopeo", "skopeo pod", SkopeoPodTimeout))
  /\ pc' = "status:runSkopeo"
  /\ podPhase' = "running"
  /\ skopeoPc' = IF deploymentRegistry = "in-cluster" THEN "loop" ELSE "inspect"
  /\ proxy' = IF deploymentRegistry = "in-cluster" THEN "created" ELSE proxy
  /\ UNCHANGED << config, syncArgs, contextPath, buildRes, podName, res, outcome, attempts, buildLog,
                  kanikoPc, supportPc, files, exitcode, podLog >>

-----------------------------------------------------------------------------
(* build *)

\* lines 220-225 and 595-599: buildHandlers
k8sBuildContainer ==
  /\ op = "build"
  /\ pc = "dispatch"
  /\ pc' = IF buildMode = "local-docker" THEN "localBuild" ELSE "remoteBuild"
  /\ UNCHANGED << config, syncArgs, contextPath, buildRes, podName, waits, calls, res, outcome, attempts, buildLog, podVars >>

\* mutant: the image is tagged and pushed whether or not there is a Dockerfile
localBuild_NoDockerfileTest ==
  /\ op = "build"
  /\ pc = "localBuild"
  /\ \E l \in LogOutputs : buildLog' = l
  /\ \/ /\ deploymentRegistry = "none"
        /\ clusterType = "kind"
        /\ calls' = calls \o << "buildContainerModule", "loadImageToKind" >>
        /\ Return(LocalBuildResult(buildLog'))
     \/ /\ deploymentRegistry = "none"
        /\ clusterType = "microk8s"
        /\ calls' = calls \o << "buildContainerModule", "getLocalImageId", "loadImageToMicrok8s" >>
        /\ Return(LocalBuildResult(buildLog'))
     \/ /\ deploymentRegistry = "none"
        /\ clusterType \notin {"kind", "microk8s"}
        /\ Call("buildContainerModule")
        /\ Return(LocalBuildResult(buildLog'))
     \/ /\ deploymentRegistry # "none"
        /\ Call("buildContainerModule")
        /\ pc' = "local:tag"
        /\ outcome' = outcome
  /\ UNCHANGED << config, syncArgs, contextPath, buildRes, podName, waits, res, attempts, podVars >>

\* lines 398-415 of localBuild
localBuild ==
  /\ op = "build"
  /\ pc = "localBuild"
  /\ \E l \in LogOutputs : buildLog' = l
  /\ \/ /\ deploymentRegistry = "none"
        /\ clusterType = "kind"
        /\ calls' = calls \o << "buildContainerModule", "loadImageToKind" >>
        /\ Return(LocalBuildResult(buildLog'))
     \/ /\ deploymentRegistry = "none"
        /\ clusterType = "microk8s"
        /\ calls' = calls \o << "buildContainerModule", "getLocalImageId", "loadImageToMicrok8s" >>
        /\ Return(LocalBuildResult(buildLog'))
     \/ /\ deploymentRegistry = "none"
        /\ clusterType \notin {"kind", "microk8s"}
        /\ Call("buildContainerModule")
        /\ Return(LocalBuildResult(buildLog'))
     \/ /\ deploymentRegistry # "none"
        /\ ~hasDockerfile
        /\ Call("buildContainerModule")
        /\ Return(LocalBuildResult(buildLog'))
     \/ /\ deploymentRegistry # "none"
        /\ hasDockerfile
        /\ Call("buildContainerModule")
        /\ pc' = "local:tag"
        /\ outcome' = outcome
  /\ UNCHANGED << config, syncArgs, contextPath, buildRes, podName, waits, res, attempts, podVars >>

\* lines 417-422 of localBuild
localBuildTag ==
  /\ op = "build"
  /\ pc = "local:tag"
  /\ calls' = calls \o << "getLocalImageId", "docker tag" >>
  /\ \/ /\ pc' = "local:push"
        /\ outcome' = outcome
     \/ Return(Threw("DockerError", << >>))
  /\ UNCHANGED << config, syncArgs, contextPath, buildRes, podName, waits, res, attempts, buildLog, podVars >>

\* lines 423-425 of localBuild
localBuildPush ==
  /\ op = "build"
  /\ pc = "local:push"
  /\ Call("docker push")
  /\ \/ Return(LocalBuildResult(buildLog))
     \/ Return(Threw("DockerError", << >>))
  /\ UNCHANGED << config, syncArgs, contextPath, buildRes, podName, waits, res, attempts, buildLog, podVars >>

\* mutant: the context is synced whether or not there is a Dockerfile
remoteBuild_NoDockerfileTest ==
  /\ op = "build"
  /\ pc = "remoteBuild"
  /\ calls' = calls \o << "getAppNamespace", "getSystemNamespace" >>
  /\ pc' = "remote:getPortForward"
  /\ UNCHANGED << config, syncArgs, contextPath, buildRes, podName, waits, res, outcome, attempts,
                  buildLog, podVars >>

\* lines 428-436 of remoteBuild
remoteBuild ==
  /\ op = "build"
  /\ pc = "remoteBuild"
  /\ calls' = calls \o << "getAppNamespace", "getSystemNamespace" >>
  /\ \/ /\ ~hasDockerfile
        /\ Return(Empty)
     \/ /\ hasDockerfile
        /\ pc' = "remote:getPortForward"
        /\ outcome' = outcome
  /\ UNCHANGED << config, syncArgs, contextPath, buildRes, podName, waits, res, attempts, buildLog, podVars >>

\* lines 441-470 of remoteBuild
remoteBuildPortForward ==
  /\ op = "build"
  /\ pc = "remote:getPortForward"
  /\ Call("getPortForward")
  /\ \/ /\ pc' = "remote:getRunningPodInDeployment"
        /\ outcome' = outcome
        /\ syncArgs' = RsyncArgs(workingCopyId, module.name)
     \/ /\ Return(Threw("PortForwardError", << >>))
        /\ syncArgs' = syncArgs
  /\ UNCHANGED << config, contextPath, buildRes, podName, waits, res, attempts, buildLog, podVars >>

\* mutant: a missing build-sync pod is not tested for
remoteBuildSyncPod_NoPodTest ==
  /\ op = "build"
  /\ pc = "remote:getRunningPodInDeployment"
  /\ \/ Call("buildSyncPod:found")
     \/ Call("buildSyncPod:none")
  /\ pc' = "remote:rsync"
  /\ UNCHANGED << config, syncArgs, contextPath, buildRes, podName, waits, res, outcome, attempts, buildLog, podVars >>

\* lines 476-483 of remoteBuild
remoteBuildSyncPod ==
  /\ op = "build"
  /\ pc = "remote:getRunningPodInDeployment"
  /\ \/ /\ Call("buildSyncPod:found")
        /\ pc' = "remote:rsync"
        /\ outcome' = outcome
     \/ /\ Call("buildSyncPod:none")
        /\ Return(Threw("PluginError:build-sync", << >>))
  /\ UNCHANGED << config, syncArgs, contextPath, buildRes, podName, waits, res, attempts, buildLog, podVars >>

\* mutant: one retry too many
PRetryMaxAttempts_OneMore(retries) == retries + 2

\* p-retry: the first attempt plus `retries` retries
PRetryMaxAttempts(retries) == retries + 1

\* mutant: the error of the last attempt is swallowed and the build goes on
remoteBuildRsync_SwallowsError ==
  /\ op = "build"
  /\ pc = "remote:rsync"
  /\ attempts' = attempts + 1
  /\ waits' = Append(waits, Wait("rsync", "garden-build-sync", 0))
  /\ \/ /\ Call("rsync:ok")
        /\ pc' = "remote:build"
     \/ /\ Call("rsync:failed")
        /\ pc' = IF attempts' < Retries + 1 THEN pc ELSE "remote:build"
  /\ UNCHANGED << config, syncArgs, contextPath, buildRes, podName, res, outcome, buildLog, podVars >>

\* lines 485-489 of remoteBuild: one run of exec("rsync", syncArgs) under pRetry
remoteBuildRsync ==
  /\ op = "build"
  /\ pc = "remote:rsync"
  /\ attempts' = attempts + 1
  /\ waits' = Append(waits, Wait("rsync", "garden-build-sync", 0))
  /\ \/ /\ Call("rsync:ok")
        /\ pc' = "remote:build"
        /\ outcome' = outcome
     \/ /\ Call("rsync:failed")
        /\ IF attempts' < PRetryMaxAttempts(Retries)
           THEN pc' = pc /\ outcome' = outcome
           ELSE Return(Threw("RsyncError", << >>))
  /\ UNCHANGED << config, syncArgs, contextPath, buildRes, podName, res, buildLog, podVars >>

\* execInBuilder (lines 602-627) hands ignoreError to kubectl.exec: a non-zero
\* exit is returned as data when it is set and thrown otherwise
execInBuilderThrows(ignoreError, r) == ~ignoreError /\ r.code # 0

\* kubectl.exec results of a build or push command in the daemon pod
BuildExecResults ==
  {[code |-> c, stdout |-> o, stderr |-> e] :
     c \in {0, 1}, o \in LogOutputs, e \in LogOutputs}

\* lines 491-527 of remoteBuild: contextPath and the branch on the build mode
remoteBuildMode ==
  /\ op = "build"
  /\ pc = "remote:build"
  /\ \/ /\ buildMode = "cluster-docker"
        /\ getBuilderPodName("remote:execInBuilder")
        /\ UNCHANGED << waits, podVars >>
     \/ /\ buildMode # "cluster-docker"
        \* lines 652-781 of runKaniko: the pod is created, no container has run yet
        /\ calls' = calls \o << "KubeApi.factory", "getSystemNamespace", "startAndWait:kaniko" >>
        /\ pc' = "remote:runKaniko"
        /\ outcome' = outcome
        /\ podPhase' = "running"
        /\ kanikoPc' = "loop"
        /\ supportPc' = "loop1"
        /\ proxy' = "created"
        /\ waits' = Append(waits, Wait("startAndWait:kaniko", "kaniko pod", module.timeout))
        /\ UNCHANGED << podName, files, exitcode, podLog, skopeoPc >>
  /\ contextPath' = ContextPath(workingCopyId, module.name)
  /\ UNCHANGED << config, syncArgs, buildRes, res, attempts, buildLog >>

\* mutant: the build command's exit code is ignored
remoteBuildExec_IgnoresError ==
  /\ op = "build"
  /\ pc = "remote:execInBuilder"
  /\ Call("execInBuilder:docker build")
  /\ waits' = Append(waits, Wait("docker build", podName, module.timeout))
  /\ \E r \in BuildExecResults :
       /\ res' = r
       /\ buildRes' = r
       /\ buildLog' = r.stdout \o r.stderr
       /\ pc' = "remote:push"
  /\ UNCHANGED << config, syncArgs, contextPath, podName, outcome, attempts, podVars >>

\* lines 534-535 of remoteBuild: execInBuilder without ignoreError, timeout buildTimeout
remoteBuildExec ==
  /\ op = "build"
  /\ pc = "remote:execInBuilder"
  /\ Call("execInBuilder:docker build")
  /\ waits' = Append(waits, Wait("docker build", podName, module.timeout))
  /\ \/ \E r \in BuildExecResults :
          /\ res' = r
          /\ buildRes' = r
          /\ IF ~execInBuilderThrows(FALSE, r)
             THEN /\ buildLog' = r.stdout \o r.stderr
                  /\ pc' = "remote:push"
                  /\ outcome' = outcome
             ELSE /\ buildLog' = buildLog
                  /\ Return(Threw("ExecError", r.stdout \o r.stderr))
     \/ /\ UNCHANGED << res, buildRes, buildLog >>
        /\ Return(Threw("TimeoutError", << >>))
  /\ UNCHANGED << config, syncArgs, contextPath, podName, attempts, podVars >>

\* mutant: the push output replaces the build output in buildLog
remoteBuildPush_OverwritesLog ==
  /\ op = "build"
  /\ pc = "remote:push"
  /\ Call("execInBuilder:docker push")
  /\ waits' = Append(waits, Wait("docker push", podName, PushTimeout))
  /\ \/ \E r \in BuildExecResults :
          /\ res' = r
          /\ IF r.code = 0
             THEN /\ buildLog' = r.stdout \o r.stderr
                  /\ Return(BuildResult(buildLog'))
             ELSE /\ buildLog' = buildLog
                  /\ Return(Threw("ExecError", r.stdout \o r.stderr))
     \/ /\ UNCHANGED << res, buildLog >>
        /\ Return(Threw("TimeoutError", << >>))
  /\ UNCHANGED << config, syncArgs, contextPath, buildRes, podName, attempts, podVars >>

\* lines 537-544 and 573-580 of remoteBuild: the push, timeout 300, and the return
remoteBuildPush ==
  /\ op = "build"
  /\ pc = "remote:push"
  /\ Call("execInBuilder:docker push")
  /\ waits' = Append(waits, Wait("docker push", podName, PushTimeout))
  /\ \/ \E r \in BuildExecResults :
          /\ res' = r
          /\ IF ~execInBuilderThrows(FALSE, r)
             THEN /\ buildLog' = buildLog \o r.stdout \o r.stderr
                  /\ Return(BuildResult(buildLog'))
             ELSE /\ buildLog' = buildLog
                  /\ Return(Threw("ExecError", r.stdout \o r.stderr))
     \/ /\ UNCHANGED << res, buildLog >>
        /\ Return(Threw("TimeoutError", << >>))
  /\ UNCHANGED << config, syncArgs, contextPath, buildRes, podName, attempts, podVars >>

-----------------------------------------------------------------------------
(* The kaniko builder pod: containers kaniko, proxy, support (lines 669-815) *)

\* pidof socat, in the shared process namespace of the pod
PidofSocat == proxy \in {"starting", "listening"}

\* ls /.garden/comms/<name>
Ls(name) == name \in files

\* mutant: the executor is started without waiting for socatStarted
KanikoLoop_NoWait ==
  /\ podPhase = "running"
  /\ kanikoPc = "loop"
  /\ kanikoPc' = "executor"
  /\ UNCHANGED << config, syncArgs, contextPath, buildRes, podName, waits, pc, calls, res, outcome, attempts, buildLog,
                  podPhase, skopeoPc, supportPc, proxy, files, exitcode, podLog >>

\* mutant: the kaniko container gives up when socatStarted is not there
KanikoLoop_GivesUp ==
  /\ podPhase = "running"
  /\ kanikoPc = "loop"
  /\ kanikoPc' = IF Ls("socatStarted") THEN "executor" ELSE "terminated"
  /\ exitcode' = IF Ls("socatStarted") THEN exitcode ELSE 1
  /\ UNCHANGED << config, syncArgs, contextPath, buildRes, podName, waits, pc, calls, res, outcome, attempts, buildLog,
                  podPhase, skopeoPc, supportPc, proxy, files, podLog >>

\* lines 670-671, 676-678: the kaniko container tests for socatStarted
KanikoLoop ==
  /\ podPhase = "running"
  /\ kanikoPc = "loop"
  /\ kanikoPc' = IF Ls("socatStarted") THEN "executor" ELSE "sleep"
  /\ UNCHANGED << config, syncArgs, contextPath, buildRes, podName, waits, pc, calls, res, outcome, attempts, buildLog,
                  podPhase, skopeoPc, supportPc, proxy, files, exitcode, podLog >>

\* line 677: sleep 0.3
KanikoSleep ==
  /\ podPhase = "running"
  /\ kanikoPc = "sleep"
  /\ kanikoPc' = "loop"
  /\ UNCHANGED << config, syncArgs, contextPath, buildRes, podName, waits, pc, calls, res, outcome, attempts, buildLog,
                  podPhase, skopeoPc, supportPc, proxy, files, exitcode, podLog >>

\* lines 672-673: /kaniko/executor ends; export exitcode=$?
KanikoExecutor ==
  /\ podPhase = "running"
  /\ kanikoPc = "executor"
  /\ \E c \in {0, 1} : exitcode' = c
  /\ \E l \in LogOutputs : podLog' = podLog \o l
  /\ kanikoPc' = "touch"
  /\ UNCHANGED << config, syncArgs, contextPath, buildRes, podName, waits, pc, calls, res, outcome, attempts, buildLog,
                  podPhase, skopeoPc, supportPc, proxy, files >>

\* mutant: the exit status of touch replaces the executor's
KanikoTouchDone_ClobbersExitcode ==
  /\ podPhase = "running"
  /\ kanikoPc = "touch"
  /\ files' = files \cup {"done"}
  /\ exitcode' = 0
  /\ kanikoPc' = "exit"
  /\ UNCHANGED << config, syncArgs, contextPath, buildRes, podName, waits, pc, calls, res, outcome, attempts, buildLog,
                  podPhase, skopeoPc, supportPc, proxy, podLog >>

\* mutant: the done marker is never created
KanikoTouchDone_Skipped ==
  /\ podPhase = "running"
  /\ kanikoPc = "touch"
  /\ kanikoPc' = "exit"
  /\ UNCHANGED << config, syncArgs, contextPath, buildRes, podName, waits, pc, calls, res, outcome, attempts, buildLog,
                  podPhase, skopeoPc, supportPc, proxy, files, exitcode, podLog >>

\* line 674: touch /.garden/comms/done
KanikoTouchDone ==
  /\ podPhase = "running"
  /\ kanikoPc = "touch"
  /\ files' = files \cup {"done"}
  /\ kanikoPc' = "exit"
  /\ UNCHANGED << config, syncArgs, contextPath, buildRes, podName, waits, pc, calls, res, outcome, attempts, buildLog,
                  podPhase, skopeoPc, supportPc, proxy, exitcode, podLog >>

\* line 675: exit $exitcode
KanikoExit ==
  /\ podPhase = "running"
  /\ kanikoPc = "exit"
  /\ kanikoPc' = "terminated"
  /\ UNCHANGED << config, syncArgs, contextPath, buildRes, podName, waits, pc, calls, res, outcome, attempts, buildLog,
                  podPhase, skopeoPc, supportPc, proxy, files, exitcode, podLog >>

\* lines 799-804: the proxy container starts socat, socat binds its port, and
\* socat may end by itself (`|| exit 0`)
ProxyStep ==
  /\ podPhase = "running"
  /\ \/ /\ proxy = "created"
        /\ proxy' = "starting"
     \/ /\ proxy = "starting"
        /\ proxy' = "listening"
     \/ /\ proxy \in {"starting", "listening"}
        /\ proxy' = "exited"
  /\ UNCHANGED << config, syncArgs, contextPath, buildRes, podName, waits, pc, calls, res, outcome, attempts, buildLog,
                  podPhase, skopeoPc, kanikoPc, supportPc, files, exitcode, podLog >>

\* lines 747-748, 751-753: the support container tests for a socat process
SupportLoop1 ==
  /\ podPhase = "running"
  /\ supportPc = "loop1"
  /\ supportPc' = IF PidofSocat THEN "touch" ELSE "sleep1"
  /\ UNCHANGED << config, syncArgs, contextPath, buildRes, podName, waits, pc, calls, res, outcome, attempts, buildLog,
                  podPhase, skopeoPc, kanikoPc, proxy, files, exitcode, podLog >>

\* lines 752 and 759: sleep 0.3
SupportSleep ==
  /\ podPhase = "running"
  /\ \/ /\ supportPc = "sleep1"
        /\ supportPc' = "loop1"
     \/ /\ supportPc = "sleep2"
        /\ supportPc' = "loop2"
  /\ UNCHANGED << config, syncArgs, contextPath, buildRes, podName, waits, pc, calls, res, outcome, attempts, buildLog,
                  podPhase, skopeoPc, kanikoPc, proxy, files, exitcode, podLog >>

\* lines 749-750: touch /.garden/comms/socatStarted; break
SupportTouchStarted ==
  /\ podPhase = "running"
  /\ supportPc = "touch"
  /\ files' = files \cup {"socatStarted"}
  /\ supportPc' = "loop2"
  /\ UNCHANGED << config, syncArgs, contextPath, buildRes, podName, waits, pc, calls, res, outcome, attempts, buildLog,
                  podPhase, skopeoPc, kanikoPc, proxy, exitcode, podLog >>

\* mutant: socat is killed without waiting for done
SupportLoop2_NoWait ==
  /\ podPhase = "running"
  /\ supportPc = "loop2"
  /\ supportPc' = "killall"
  /\ UNCHANGED << config, syncArgs, contextPath, buildRes, podName, waits, pc, calls, res, outcome, attempts, buildLog,
                  podPhase, skopeoPc, kanikoPc, proxy, files, exitcode, podLog >>

\* lines 755-756, 758-760: the support container tests for done
SupportLoop2 ==
  /\ podPhase = "running"
  /\ supportPc = "loop2"
  /\ supportPc' = IF Ls("done") THEN "killall" ELSE "sleep2"
  /\ UNCHANGED << config, syncArgs, contextPath, buildRes, podName, waits, pc, calls, res, outcome, attempts, buildLog,
                  podPhase, skopeoPc, kanikoPc, proxy, files, exitcode, podLog >>

\* line 757: killall socat
SupportKillall ==
  /\ podPhase = "running"
  /\ supportPc = "killall"
  /\ proxy' = IF PidofSocat THEN "killed" ELSE proxy
  /\ supportPc' = "exit"
  /\ UNCHANGED << config, syncArgs, contextPath, buildRes, podName, waits, pc, calls, res, outcome, attempts, buildLog,
                  podPhase, skopeoPc, kanikoPc, files, exitcode, podLog >>

\* line 757: exit 0
SupportExit ==
  /\ podPhase = "running"
  /\ supportPc = "exit"
  /\ supportPc' = "terminated"
  /\ UNCHANGED << config, syncArgs, contextPath, buildRes, podName, waits, pc, calls, res, outcome, attempts, buildLog,
                  podPhase, skopeoPc, kanikoPc, proxy, files, exitcode, podLog >>

\* mutant: the pod's log is not copied to buildLog
remoteBuildKanikoResult_DropsLog(r) ==
  /\ res' = r
  /\ buildLog' = buildLog
  /\ IF r.code # 0
     THEN Return(Threw("BuildError", buildLog'))
     ELSE Return(BuildResult(buildLog'))

\* mutant: success is not tested
remoteBuildKanikoResult_IgnoresFailure(r) ==
  /\ res' = r
  /\ buildLog' = r.stdout
  /\ Return(BuildResult(buildLog'))

\* lines 565-580 of remoteBuild: what follows the pod run's result r
remoteBuildKanikoResult(r) ==
  /\ res' = r
  /\ buildLog' = r.stdout
  /\ IF r.code # 0
     THEN Return(Threw("BuildError", buildLog'))
     ELSE Return(BuildResult(buildLog'))

AllTerminated ==
  /\ kanikoPc = "terminated"
  /\ supportPc = "terminated"
  /\ proxy \in {"exited", "killed"}

\* lines 775-781: startAndWait returns once every container has terminated;
\* success is the kaniko container's exit code being 0; the pod is deleted
PodCompleted ==
  /\ pc = "remote:runKaniko"
  /\ podPhase = "running"
  /\ AllTerminated
  /\ podPhase' = "deleted"
  /\ Call("deletePod")
  /\ remoteBuildKanikoResult([code |-> exitcode, stdout |-> podLog, stderr |-> << >>])
  /\ UNCHANGED << config, syncArgs, contextPath, buildRes, podName, waits, attempts, kanikoPc, supportPc, proxy, files,
                  exitcode, podLog, skopeoPc >>

\* mutant: a run that times out leaves its pod behind
PodTimeout_NoDelete ==
  /\ pc = "remote:runKaniko"
  /\ podPhase = "running"
  /\ ~AllTerminated
  /\ podPhase' = "timed out"
  /\ remoteBuildKanikoResult([code |-> 1, stdout |-> podLog, stderr |-> << >>])
  /\ UNCHANGED << config, syncArgs, contextPath, buildRes, podName, waits, calls, attempts, kanikoPc, supportPc,
                  proxy, files, exitcode, podLog, skopeoPc >>

\* lines 775-781: the timeout (module.spec.build.timeout) ends the wait with
\* success: false and the log so far; the pod is deleted
PodTimeout ==
  /\ pc = "remote:runKaniko"
  /\ podPhase = "running"
  /\ ~AllTerminated
  /\ podPhase' = "deleted"
  /\ Call("deletePod")
  /\ remoteBuildKanikoResult([code |-> 1, stdout |-> podLog, stderr |-> << >>])
  /\ UNCHANGED << config, syncArgs, contextPath, buildRes, podName, waits, attempts, kanikoPc, supportPc, proxy, files,
                  exitcode, podLog, skopeoPc >>

\* lines 775-781: the cluster API fails during the run; the pod is deleted and
\* the error is thrown to remoteBuild's caller
PodError ==
  /\ pc = "remote:runKaniko"
  /\ podPhase = "running"
  /\ podPhase' = "deleted"
  /\ calls' = calls \o << "deletePod", "startAndWait:threw" >>
  /\ Return(Threw("PodRunnerError", podLog))
  /\ UNCHANGED << config, syncArgs, contextPath, buildRes, podName, waits, res, attempts, buildLog, kanikoPc, supportPc,
                  proxy, files, exitcode, podLog, skopeoPc >>

-----------------------------------------------------------------------------
(* The skopeo pod of buildStatusHandlers["kaniko"]: containers skopeo and,
   for the in-cluster registry, proxy (lines 353-394) *)

\* line 305: deploymentRegistry.hostname === inClusterRegistryHostname
inClusterRegistry == deploymentRegistry = "in-cluster"

\* mutant: skopeo inspect is started without waiting for socat
SkopeoLoop_NoWait ==
  /\ podPhase = "running"
  /\ skopeoPc = "loop"
  /\ skopeoPc' = "inspect"
  /\ UNCHANGED << config, syncArgs, contextPath, buildRes, podName, waits, pc, calls, res, outcome, attempts, buildLog,
                  podPhase, kanikoPc, supportPc, proxy, files, exitcode, podLog >>

\* lines 357-358, 363-365: the skopeo container tests for a socat process
SkopeoLoop ==
  /\ podPhase = "running"
  /\ skopeoPc = "loop"
  /\ skopeoPc' = IF PidofSocat THEN "inspect" ELSE "sleep"
  /\ UNCHANGED << config, syncArgs, contextPath, buildRes, podName, waits, pc, calls, res, outcome, attempts, buildLog,
                  podPhase, kanikoPc, supportPc, proxy, files, exitcode, podLog >>

\* line 364: sleep 0.3
SkopeoSleep ==
  /\ podPhase = "running"
  /\ skopeoPc = "sleep"
  /\ skopeoPc' = "loop"
  /\ UNCHANGED << config, syncArgs, contextPath, buildRes, podName, waits, pc, calls, res, outcome, attempts, buildLog,
                  podPhase, kanikoPc, supportPc, proxy, files, exitcode, podLog >>

\* lines 359-360 and 369: skopeo inspect ends; export exitcode=$?
SkopeoInspect ==
  /\ podPhase = "running"
  /\ skopeoPc = "inspect"
  /\ \E r \in ProbePodResults :
       /\ exitcode' = r.code
       /\ podLog' = r.stdout
  /\ skopeoPc' = IF inClusterRegistry THEN "killall" ELSE "terminated"
  /\ UNCHANGED << config, syncArgs, contextPath, buildRes, podName, waits, pc, calls, res, outcome, attempts, buildLog,
                  podPhase, kanikoPc, supportPc, proxy, files >>

\* line 361: killall socat
SkopeoKillall ==
  /\ podPhase = "running"
  /\ skopeoPc = "killall"
  /\ proxy' = IF PidofSocat THEN "killed" ELSE proxy
  /\ skopeoPc' = "exit"
  /\ UNCHANGED << config, syncArgs, contextPath, buildRes, podName, waits, pc, calls, res, outcome, attempts, buildLog,
                  podPhase, kanikoPc, supportPc, files, exitcode, podLog >>

\* line 362: exit $exitcode
SkopeoExit ==
  /\ podPhase = "running"
  /\ skopeoPc = "exit"
  /\ skopeoPc' = "terminated"
  /\ UNCHANGED << config, syncArgs, contextPath, buildRes, podName, waits, pc, calls, res, outcome, attempts, buildLog,
                  podPhase, kanikoPc, supportPc, proxy, files, exitcode, podLog >>

\* lines 341-349 of buildStatusHandlers["kaniko"]: what follows the pod run's result r
KanikoStatusResult(r) ==
  /\ res' = r
  /\ Return(KanikoClassify(r))

ProbeAllTerminated ==
  /\ skopeoPc = "terminated"
  /\ proxy \in {"none", "exited", "killed"}

\* lines 333-339: startAndWait returns once every container has terminated;
\* success is the skopeo container's exit code being 0; the pod is deleted
ProbePodCompleted ==
  /\ pc = "status:runSkopeo"
  /\ podPhase = "running"
  /\ ProbeAllTerminated
  /\ podPhase' = "deleted"
  /\ Call("deletePod")
  /\ KanikoStatusResult([code |-> exitcode, stdout |-> podLog, stderr |-> << >>])
  /\ UNCHANGED << config, syncArgs, contextPath, buildRes, podName, waits, attempts, buildLog, kanikoPc, supportPc,
                  proxy, files, exitcode, podLog, skopeoPc >>

\* lines 333-339: the timeout of 60 seconds ends the wait with success: false
\* and the log so far; the pod is deleted
ProbePodTimeout ==
  /\ pc = "status:runSkopeo"
  /\ podPhase = "running"
  /\ ~ProbeAllTerminated
  /\ podPhase' = "deleted"
  /\ Call("deletePod")
  /\ KanikoStatusResult([code |-> 1, stdout |-> podLog, stderr |-> << >>])
  /\ UNCHANGED << config, syncArgs, contextPath, buildRes, podName, waits, attempts, buildLog, kanikoPc, supportPc,
                  proxy, files, exitcode, podLog, skopeoPc >>

\* lines 333-339: the cluster API fails during the run; the pod is deleted and
\* the error is thrown to the status handler's caller
ProbePodError ==
  /\ pc = "status:runSkopeo"
  /\ podPhase = "running"
  /\ podPhase' = "deleted"
  /\ calls' = calls \o << "deletePod", "startAndWait:threw" >>
  /\ Return(Threw("PodRunnerError", podLog))
  /\ UNCHANGED << config, syncArgs, contextPath, buildRes, podName, waits, res, attempts, buildLog, kanikoPc,
                  supportPc, proxy, files, exitcode, podLog, skopeoPc >>

Next ==
  \/ k8sGetContainerBuildStatus
  \/ LocalDockerStatus
  \/ ClusterDockerStatusCheck
  \/ ClusterDockerStatusPod
  \/ ClusterDockerStatusExec
  \/ KanikoStatusCheck
  \/ KanikoStatusSetup
  \/ KanikoStatusRun
  \/ k8sBuildContainer
  \/ localBuild
  \/ localBuildTag
  \/ localBuildPush
  \/ remoteBuild
  \/ remoteBuildPortForward
  \/ remoteBuildSyncPod
  \/ remoteBuildRsync
  \/ remoteBuildMode
  \/ remoteBuildExec
  \/ remoteBuildPush
  \/ KanikoLoop
  \/ KanikoSleep
  \/ KanikoExecutor
  \/ KanikoTouchDone
  \/ KanikoExit
  \/ ProxyStep
  \/ SupportLoop1
  \/ SupportSleep
  \/ SupportTouchStarted
  \/ SupportLoop2
  \/ SupportKillall
  \/ SupportExit
  \/ PodCompleted
  \/ PodTimeout
  \/ PodError
  \/ SkopeoLoop
  \/ SkopeoSleep
  \/ SkopeoInspect
  \/ SkopeoKillall
  \/ SkopeoExit
  \/ ProbePodCompleted
  \/ ProbePodTimeout
  \/ ProbePodError

Spec == Init /\ [][Next]_vars

-----------------------------------------------------------------------------
(* Remote builds alone: build of a module in cluster-docker or kaniko mode,
   for each of the working copies that share the cluster *)

InitRemote ==
  /\ buildMode \in RemoteModes
  /\ module \in Modules
  /\ hasDockerfile \in BOOLEAN
  /\ deploymentRegistry \in {"external", "in-cluster"}
  /\ clusterType = "generic"
  /\ op = "build"
  /\ workingCopyId \in WorkingCopyIds
  /\ Started
  /\ StreamConstructed
  /\ NoRunTest

NextRemote ==
  \/ k8sBuildContainer
  \/ remoteBuild
  \/ remoteBuildPortForward
  \/ remoteBuildSyncPod
  \/ remoteBuildRsync
  \/ remoteBuildMode
  \/ remoteBuildExec
  \/ remoteBuildPush
  \/ KanikoLoop
  \/ KanikoSleep
  \/ KanikoExecutor
  \/ KanikoTouchDone
  \/ KanikoExit
  \/ ProxyStep
  \/ SupportLoop1
  \/ SupportSleep
  \/ SupportTouchStarted
  \/ SupportLoop2
  \/ SupportKillall
  \/ SupportExit
  \/ PodCompleted
  \/ PodTimeout
  \/ PodError

\* a container that is running gets the processor: each step of the kaniko
\* and of the support container's script is taken once it stays possible
ContainersRun ==
  /\ WF_vars(KanikoLoop)
  /\ WF_vars(KanikoSleep)
  /\ WF_vars(KanikoTouchDone)
  /\ WF_vars(KanikoExit)
  /\ WF_vars(SupportLoop1)
  /\ WF_vars(SupportSleep)
  /\ WF_vars(SupportTouchStarted)
  /\ WF_vars(SupportLoop2)
  /\ WF_vars(SupportKillall)
  /\ WF_vars(SupportExit)

RemoteBuildSpec == InitRemote /\ [][NextRemote]_vars /\ ContainersRun

-----------------------------------------------------------------------------
(* BufferedEventStream (platform/buffered-event-stream.ts).  An event or a
   log entry is the number it was streamed as; `timers` holds one entry per
   setInterval call, "active" until clearInterval. *)

\* line 45
MAX_BATCH_SIZE == 100

EventBuses == {"bus-1", "bus-2"}

\* connect's clientAuthToken and platformUrl: strings, the empty one included
ClientAuthTokens == {"", "token"}

PlatformUrls == {"", "https://platform"}

Min(a, b) == IF a < b THEN a ELSE b

Range(f) == {f[i] : i \in DOMAIN f}

\* Array.prototype.splice(0, n): the items removed and the items left
SpliceRemoved(buffer, n) == SubSeq(buffer, 1, Min(n, Len(buffer)))

SpliceLeft(buffer, n) == SubSeq(buffer, Min(n, Len(buffer)) + 1, Len(buffer))

ActiveTimers == {i \in 1..Len(timers) : timers[i] = "active"}

\* a build call that was never made
NoCall ==
  /\ buildMode = "local-docker"
  /\ module = CHOOSE m \in Modules : m.version = "v-1"
  /\ hasDockerfile = FALSE
  /\ deploymentRegistry = "none"
  /\ clusterType = "generic"
  /\ op = "none"
  /\ workingCopyId = << "a" >>
  /\ Started

InitStream ==
  /\ NoCall
  /\ StreamConstructed
  /\ NoRunTest

\* mutant: the test of the token and the URL is dropped
flushBuffered_NoTokenTest(flushAll) ==
  LET eventCount == IF flushAll THEN Len(bufferedEvents) ELSE MAX_BATCH_SIZE
      eventsToFlush == SpliceRemoved(bufferedEvents, eventCount)
      logEntryFlushCount ==
        IF flushAll THEN Len(bufferedLogEntries)
                    ELSE MAX_BATCH_SIZE - Len(eventsToFlush)
  IN  /\ bufferedEvents' = SpliceLeft(bufferedEvents, eventCount)
      /\ bufferedLogEntries' = SpliceLeft(bufferedLogEntries, logEntryFlushCount)
      /\ delivered' = delivered

\* mutant: log entries get a batch of their own
flushBuffered_LogEntriesOwnBatch(flushAll) ==
  IF clientAuthToken = "" \/ platformUrl = ""
  THEN UNCHANGED << bufferedEvents, bufferedLogEntries, delivered >>
  ELSE LET eventCount == IF flushAll THEN Len(bufferedEvents) ELSE MAX_BATCH_SIZE
           logEntryFlushCount == IF flushAll THEN Len(bufferedLogEntries) ELSE MAX_BATCH_SIZE
       IN  /\ bufferedEvents' = SpliceLeft(bufferedEvents, eventCount)
           /\ bufferedLogEntries' = SpliceLeft(bufferedLogEntries, logEntryFlushCount)
           /\ delivered' = delivered

\* lines 163-182: flushBuffered; the calls of the test handlers and of
\* flushEvents / flushLogEntries are commented out (171, 178-180), so the
\* spliced items are handed to nobody
flushBuffered(flushAll) ==
  IF clientAuthToken = "" \/ platformUrl = ""
  THEN UNCHANGED << bufferedEvents, bufferedLogEntries, delivered >>
  ELSE LET eventCount == IF flushAll THEN Len(bufferedEvents) ELSE MAX_BATCH_SIZE
           eventsToFlush == SpliceRemoved(bufferedEvents, eventCount)
           logEntryFlushCount ==
             IF flushAll THEN Len(bufferedLogEntries)
                         ELSE MAX_BATCH_SIZE - Len(eventsToFlush)
       IN  /\ bufferedEvents' = SpliceLeft(bufferedEvents, eventCount)
           /\ bufferedLogEntries' = SpliceLeft(bufferedLogEntries, logEntryFlushCount)
           /\ delivered' = delivered

\* mutant: connect starts a timer whether or not one is kept
connect_AlwaysStarts ==
  /\ op = "none"
  /\ \E token \in ClientAuthTokens : clientAuthToken' = token
  /\ \E url \in PlatformUrls : platformUrl' = url
  /\ \E bus \in EventBuses : eventBus' = bus
  /\ Len(timers) < MaxTimers
  /\ timers' = Append(timers, "active")
  /\ intervalId' = Timer(Len(timers'))
  /\ UNCHANGED << buildVars, runTestVars, bufferedEvents, bufferedLogEntries, flushEventsTestHandler,
                  flushLogEntriesTestHandler, delivered, streamed >>

\* lines 81-96: connect, with startInterval (98-106) when no timer is kept
connect ==
  /\ op = "none"
  /\ \E token \in ClientAuthTokens : clientAuthToken' = token
  /\ \E url \in PlatformUrls : platformUrl' = url
  /\ \E bus \in EventBuses : eventBus' = bus
  /\ IF intervalId.kind # "timer"
     THEN /\ Len(timers) < MaxTimers
          /\ timers' = Append(timers, "active")
          /\ intervalId' = Timer(Len(timers'))
     ELSE UNCHANGED << timers, intervalId >>
  /\ UNCHANGED << buildVars, runTestVars, bufferedEvents, bufferedLogEntries, flushEventsTestHandler,
                  flushLogEntriesTestHandler, delivered, streamed >>

\* lines 99-101: a timer that was not cleared fires
IntervalFires ==
  /\ op = "none"
  /\ ActiveTimers # {}
  /\ flushBuffered(FALSE)
  /\ UNCHANGED << buildVars, runTestVars, clientAuthToken, platformUrl, intervalId, timers, eventBus,
                  flushEventsTestHandler, flushLogEntriesTestHandler, streamed >>

\* mutant: close flushes one batch, as the timer does
close_OneBatch ==
  /\ op = "none"
  /\ IF intervalId.kind = "timer"
     THEN /\ timers' = [timers EXCEPT ![intervalId.timer] = "cleared"]
          /\ intervalId' = Null
     ELSE UNCHANGED << timers, intervalId >>
  /\ flushBuffered(FALSE)
  /\ UNCHANGED << buildVars, runTestVars, clientAuthToken, platformUrl, eventBus, flushEventsTestHandler,
                  flushLogEntriesTestHandler, streamed >>

\* lines 116-129
close ==
  /\ op = "none"
  /\ IF intervalId.kind = "timer"
     THEN /\ timers' = [timers EXCEPT ![intervalId.timer] = "cleared"]
          /\ intervalId' = Null
     ELSE UNCHANGED << timers, intervalId >>
  /\ flushBuffered(TRUE)
  /\ UNCHANGED << buildVars, runTestVars, clientAuthToken, platformUrl, eventBus, flushEventsTestHandler,
                  flushLogEntriesTestHandler, streamed >>

\* lines 131-137
streamEvent ==
  /\ op = "none"
  /\ streamed.events < MaxEvents
  /\ streamed' = [streamed EXCEPT !.events = @ + 1]
  /\ bufferedEvents' = Append(bufferedEvents, streamed'.events)
  /\ UNCHANGED << buildVars, runTestVars, clientAuthToken, platformUrl, intervalId, timers, eventBus,
                  bufferedLogEntries, flushEventsTestHandler, flushLogEntriesTestHandler,
                  delivered >>

\* lines 139-141
streamLogEntry ==
  /\ op = "none"
  /\ streamed.logEntries < MaxLogEntries
  /\ streamed' = [streamed EXCEPT !.logEntries = @ + 1]
  /\ bufferedLogEntries' = Append(bufferedLogEntries, streamed'.logEntries)
  /\ UNCHANGED << buildVars, runTestVars, clientAuthToken, platformUrl, intervalId, timers, eventBus,
                  bufferedEvents, flushEventsTestHandler, flushLogEntriesTestHandler,
                  delivered >>

\* lines 108-114: the listener that connect gives to eventBus.onAny (95), called
\* when a connected bus emits; no bus is ever unsubscribed.  It is passed as a
\* plain method reference, so whether `this` is the stream when the bus calls
\* it is up to the bus: the call either streams the item or throws
handleEvent ==
  /\ eventBus # "undefined"
  /\ \E isLoggerEvent \in BOOLEAN :
       \/ IF isLoggerEvent THEN streamLogEntry ELSE streamEvent
       \/ /\ op = "none"
          /\ UNCHANGED vars

\* lines 59-65: a unit test sets the public test handlers
SetTestHandlers ==
  /\ op = "none"
  /\ ~flushEventsTestHandler
  /\ flushEventsTestHandler' = TRUE
  /\ flushLogEntriesTestHandler' = TRUE
  /\ UNCHANGED << buildVars, runTestVars, clientAuthToken, platformUrl, intervalId, timers, eventBus,
                  bufferedEvents, bufferedLogEntries, delivered, streamed >>

NextStream ==
  \/ connect
  \/ IntervalFires
  \/ close
  \/ streamEvent
  \/ streamLogEntry
  \/ handleEvent
  \/ SetTestHandlers

StreamSpec == InitStream /\ [][NextStream]_vars

\* lines 99-101: setInterval calls the flush again and again until the timer
\* is cleared
TimerRuns == WF_vars(IntervalFires)

FairStreamSpec == InitStream /\ [][NextStream]_vars /\ TimerRuns

-----------------------------------------------------------------------------
(* Flushes of full buffers: a connected stream that holds any number of
   events and log entries, as after that many streamEvent and streamLogEntry
   calls, and the flushes made from there. *)

InitFlush ==
  /\ NoCall
  /\ NoRunTest
  /\ clientAuthToken \in ClientAuthTokens \ {""}
  /\ platformUrl \in PlatformUrls \ {""}
  /\ intervalId = Timer(1)
  /\ timers = << "active" >>
  /\ eventBus \in EventBuses
  /\ \E n \in 0..MaxBuffered, m \in 0..MaxBuffered :
       /\ bufferedEvents = [i \in 1..n |-> i]
       /\ bufferedLogEntries = [i \in 1..m |-> i]
       /\ streamed = [events |-> n, logEntries |-> m]
  /\ flushEventsTestHandler = FALSE
  /\ flushLogEntriesTestHandler = FALSE
  /\ delivered = << >>

NextFlush ==
  \/ IntervalFires
  \/ close

FlushSpec == InitFlush /\ [][NextFlush]_vars

-----------------------------------------------------------------------------
(* RunTestCommand.action (commands/run/test): `garden run test <module> <test>` *)

RunCall(name) == runCalls' = Append(runCalls, name)

RunReturn(o) ==
  /\ runPc' = "done"
  /\ runOutcome' = o

InitRunTest ==
  /\ NoCall
  /\ StreamConstructed
  /\ runInput \in RunInputs
  /\ runPc = "getConfigGraph"
  /\ runCalls = << >>
  /\ runOutcome = "none"

\* lines 69-85: the module and the test configuration of that name
RunTestFindTest ==
  /\ runPc = "getConfigGraph"
  /\ runCalls' = runCalls \o << "getConfigGraph", "getModule", "findByName" >>
  /\ IF ~runInput.found
     THEN RunReturn("ParameterError")
     ELSE /\ runPc' = "disabled"
          /\ runOutcome' = runOutcome
  /\ UNCHANGED << buildVars, streamVars, runInput >>

\* mutant: only module.disabled is tested
RunTestDisabledCheck_ModuleOnly ==
  /\ runPc = "disabled"
  /\ RunCall("testFromConfig")
  /\ IF runInput.moduleDisabled /\ ~runInput.force
     THEN RunReturn("CommandError")
     ELSE /\ runPc' = "processTasks"
          /\ runOutcome' = runOutcome
  /\ UNCHANGED << buildVars, streamVars, runInput >>

\* lines 85-96: a disabled test is not run unless forced
RunTestDisabledCheck ==
  /\ runPc = "disabled"
  /\ RunCall("testFromConfig")
  /\ IF (runInput.moduleDisabled \/ runInput.testDisabled) /\ ~runInput.force
     THEN RunReturn("CommandError")
     ELSE /\ runPc' = "processTasks"
          /\ runOutcome' = runOutcome
  /\ UNCHANGED << buildVars, streamVars, runInput >>

\* lines 98-112: the test task and its dependencies, which are processed; a
\* failure in there ends the command
RunTestProcessDependencies ==
  /\ runPc = "processTasks"
  /\ runCalls' = runCalls \o << "getActionRouter", "TestTask.factory", "getDependencies",
                                "processTasks" >>
  /\ \/ /\ runPc' = "testModule"
        /\ runOutcome' = runOutcome
     \/ RunReturn("error:processTasks")
  /\ UNCHANGED << buildVars, streamVars, runInput >>

\* lines 114-141: the runtime context, then the test is run and its result
\* returned
RunTestTestModule ==
  /\ runPc = "testModule"
  /\ runCalls' = runCalls \o << "prepareRuntimeContext", "testModule" >>
  /\ \/ RunReturn("CommandResult")
     \/ RunReturn("error:testModule")
  /\ UNCHANGED << buildVars, streamVars, runInput >>

NextRunTest ==
  \/ RunTestFindTest
  \/ RunTestDisabledCheck
  \/ RunTestProcessDependencies
  \/ RunTestTestModule

RunTestSpec == InitRunTest /\ [][NextRunTest]_vars

-----------------------------------------------------------------------------
(* Properties *)

Count(name) == Cardinality({i \in 1..Len(calls) : calls[i] = name})

RsyncCalls == Count("rsync:ok") + Count("rsync:failed")

\* the marker each status handler looks for (lines 240, 276, 342)
AbsentMarker == IF buildMode = "kaniko" THEN "manifest unknown" ELSE "no such manifest"

\* the registry probe of the configured mode was run and the call has ended
ProbeRan ==
  /\ op = "getBuildStatus"
  /\ pc = "done"
  /\ \/ Called("docker manifest inspect")
     \/ Called("execInBuilder:manifest inspect")
     \/ Called("startAndWait:skopeo")

CapturedOutput == res.stdout \o res.stderr

BuilderStarted ==
  \/ Called("execInBuilder:docker build")
  \/ Called("startAndWait:kaniko")
  \/ podPhase # "none"

\* C1: for a module without a Dockerfile, in every build mode, getBuildStatus
\* returns ready: true and never enters a mode's status handler, so that no
\* probe, exec or pod run is made.
C1_NoDockerfileIsReady ==
  (op = "getBuildStatus" /\ ~hasDockerfile) =>
     /\ pc \in {"dispatch", "done"}
     /\ calls = << >>
     /\ pc = "done" => outcome = Ready(TRUE)

C1_Witness ==
  /\ op = "getBuildStatus"
  /\ ~hasDockerfile
  /\ buildMode = "kaniko"
  /\ pc = "done"
  /\ outcome = Ready(TRUE)

\* the operations C2 lists: namespace and cluster calls, the tunnel, the
\* transfer, an exec in the daemon pod, a builder pod, tag and push
RemoteOperations ==
  {"getAppNamespace", "getSystemNamespace", "KubeApi.factory", "getPortForward",
   "buildSyncPod:found", "buildSyncPod:none", "rsync:ok", "rsync:failed",
   "getRunningPodInDeployment:garden-docker-daemon",
   "execInBuilder:docker build", "execInBuilder:docker push",
   "startAndWait:kaniko", "docker tag", "docker push"}

\* C2: for a module without a Dockerfile, in every build mode, build performs
\* no remote operation before it returns.
C2_NoDockerfileNoRemoteOperation ==
  (op = "build" /\ ~hasDockerfile) =>
     \A i \in 1..Len(calls) : calls[i] \notin RemoteOperations

\* C3: in every mode the registry probe answers ready: false only when the
\* captured output holds the mode's absent marker, and every unsuccessful
\* probe whose output lacks the marker throws a RuntimeError.
C3_AbsentOnlyOnMarker ==
  ProbeRan =>
     /\ (outcome.kind = "status" /\ ~outcome.ready) =>
           Includes(CapturedOutput, AbsentMarker)
     /\ (res.code # 0 /\ ~Includes(CapturedOutput, AbsentMarker)) =>
           (outcome.kind = "error" /\ outcome.error = "RuntimeError")

C3_Witness ==
  /\ ProbeRan
  /\ buildMode = "cluster-docker"
  /\ res.code # 0
  /\ Includes(res.stderr, "no such manifest")
  /\ outcome = Ready(FALSE)

\* C4: in a remote mode with no deployment registry, getBuildStatus of a
\* module with a Dockerfile throws the InternalError before any other call.
C4_StatusWithoutRegistryThrows ==
  (/\ op = "getBuildStatus"
   /\ buildMode \in RemoteModes
   /\ deploymentRegistry = "none"
   /\ hasDockerfile) =>
     /\ pc \in {"dispatch", buildMode, "done"}
     /\ calls = << >>
     /\ pc = "done" => outcome = Threw("InternalError", << >>)

C4_Witness ==
  /\ op = "getBuildStatus"
  /\ buildMode = "kaniko"
  /\ deploymentRegistry = "none"
  /\ hasDockerfile
  /\ outcome = Threw("InternalError", << >>)

\* C5: in a remote mode with no deployment registry, build throws the
\* InternalError without a port-forward, a transfer, an exec or a builder pod.
C5_BuildWithoutRegistryThrows ==
  (/\ op = "build"
   /\ buildMode \in RemoteModes
   /\ deploymentRegistry = "none"
   /\ hasDockerfile) =>
     /\ ~Called("getPortForward")
     /\ RsyncCalls = 0
     /\ ~BuilderStarted
     /\ pc = "done" => outcome = Threw("InternalError", << >>)

\* C6 as stated: the transfer is attempted at most 3 times in total.
C6_AtMostThreeAttempts == RsyncCalls <= 3

\* C6, amended: the transfer is attempted at most once plus the 3 retries,
\* 4 times in total, and the failure is surfaced only after the last of them.
C6_AtMostRetriesPlusOne ==
  /\ RsyncCalls <= Retries + 1
  /\ RsyncCalls = attempts
  /\ outcome.error = "RsyncError" => Count("rsync:failed") = Retries + 1

C6_Witness ==
  /\ Count("rsync:failed") = Retries + 1
  /\ outcome.error = "RsyncError"

\* C7: no transfer follows a successful one and the build goes on after it;
\* when every attempt of the budget has failed the build has ended with the
\* transfer's error, no build exec and no builder pod was started, and nothing
\* more happens.
C7_StopsAtSuccessFailsWhenExhausted ==
  /\ Count("rsync:ok") <= 1
  /\ Called("rsync:ok") =>
        /\ calls[Len(calls)] \notin {"rsync:failed"}
        /\ pc # "remote:rsync"
        /\ outcome.error # "RsyncError"
  /\ (attempts > 0 /\ ~Called("rsync:ok") /\ pc # "remote:rsync") =>
        /\ pc = "done"
        /\ outcome = Threw("RsyncError", << >>)
        /\ ~BuilderStarted
        /\ ~ENABLED Next

C7_Witness ==
  /\ outcome = Threw("RsyncError", << >>)
  /\ attempts = Retries + 1
  /\ ~BuilderStarted

\* C8: when the lookup of the build-sync pod finds none, the build has ended
\* with the PluginError, no transfer was attempted, no build exec and no
\* builder pod was started, and nothing more happens.
C8_NoSyncPodFailsAtOnce ==
  Called("buildSyncPod:none") =>
     /\ pc = "done"
     /\ outcome = Threw("PluginError:build-sync", << >>)
     /\ RsyncCalls = 0
     /\ attempts = 0
     /\ ~BuilderStarted
     /\ ~ENABLED Next

C8_Witness ==
  /\ Called("buildSyncPod:none")
  /\ outcome = Threw("PluginError:build-sync", << >>)

\* C9: in the builder pod, under every interleaving of its containers, the
\* kaniko executor is started only in a state where socatStarted exists.
C9_ExecutorAfterSocatStarted ==
  [][(kanikoPc' = "executor" /\ kanikoPc # "executor") => Ls("socatStarted")]_vars

C9_Witness ==
  /\ kanikoPc = "executor"
  /\ Ls("socatStarted")
  /\ podPhase = "running"

ExecutorFinished == kanikoPc \in {"touch", "exit", "terminated"}

\* C10: in the builder pod (the pod with a kaniko container) the support
\* container runs killall socat only when done exists, and done is created
\* only once the executor has finished.
C10_KillAfterDoneAfterExecutor ==
  [][/\ (supportPc' = "exit" /\ supportPc # "exit") => Ls("done")
     /\ (kanikoPc # "none" /\ proxy' = "killed" /\ proxy # "killed") => Ls("done")
     /\ (Ls("done")' /\ ~Ls("done")) => ExecutorFinished]_vars

C10_Witness ==
  /\ kanikoPc # "none"
  /\ proxy = "killed"
  /\ supportPc = "terminated"
  /\ Ls("done")

ExecutorBegun == kanikoPc \in {"executor", "touch", "exit", "terminated"}

\* C11: the readiness marker exists, and the executor runs, only once the
\* proxy has been listening on its port.
C11_MarkerOnlyOnceListening ==
  (kanikoPc # "none" /\ (Ls("socatStarted") \/ ExecutorBegun)) =>
     proxy \notin {"created", "starting"}

\* C12: in the builder pod, as long as socatStarted has not been created (the
\* proxy never started, or ended before the support container saw it) neither
\* the kaniko nor the support container has terminated; the run then ends with
\* containers still running, that is by the pod's timeout or an error of the
\* run and never by completion, and build fails.
C12_NoProtocolTimeout ==
  (kanikoPc # "none" /\ ~Ls("socatStarted")) =>
     /\ kanikoPc \in {"loop", "sleep"}
     /\ supportPc \in {"loop1", "sleep1", "touch"}
     /\ podPhase # "running" =>
          /\ pc = "done"
          /\ ~AllTerminated
          /\ outcome.kind = "error"
          /\ outcome.error \in {"BuildError", "PodRunnerError"}

C12_Witness ==
  /\ podPhase = "deleted"
  /\ proxy = "exited"
  /\ ~Ls("socatStarted")
  /\ supportPc \in {"loop1", "sleep1"}
  /\ kanikoPc \in {"loop", "sleep"}
  /\ ~Called("startAndWait:threw")
  /\ outcome = Threw("BuildError", << >>)

InspectFinished == skopeoPc \in {"killall", "exit", "terminated"}

\* C13: in the skopeo pod for the in-cluster registry, skopeo inspect is
\* started only in a state where a socat process runs, and socat is killed
\* only once skopeo inspect has finished.
C13_ProbePodOrdering ==
  [][/\ (inClusterRegistry /\ skopeoPc' = "inspect" /\ skopeoPc # "inspect") => PidofSocat
     /\ (skopeoPc # "none" /\ proxy' = "killed" /\ proxy # "killed") => InspectFinished]_vars

C13_Witness ==
  /\ inClusterRegistry
  /\ skopeoPc = "terminated"
  /\ proxy = "killed"

\* the kaniko pod run returned a result to remoteBuild
KanikoRunReturned ==
  /\ op = "build"
  /\ buildMode = "kaniko"
  /\ Called("deletePod")
  /\ ~Called("startAndWait:threw")

\* C14: in kaniko mode, when the pod run returns success with log L, build
\* returns {buildLog: L, fetched: false, fresh: true, version: module version}.
C14_KanikoSuccessResult ==
  (KanikoRunReturned /\ res.code = 0) =>
     /\ pc = "done"
     /\ res.stdout = podLog
     /\ outcome = Outcome("result", FALSE, "", podLog, FALSE, TRUE, module.version)

C14_Witness ==
  /\ KanikoRunReturned
  /\ res.code = 0
  /\ hasDockerfile
  /\ podLog = << "step" >>
  /\ module.version = "v-2"
  /\ outcome.kind = "result"

\* C15: in kaniko mode, when the pod run returns success: false (a failed
\* executor or a timeout), build throws a BuildError carrying the pod's log
\* and returns no BuildResult.
C15_KanikoFailureThrows ==
  (KanikoRunReturned /\ res.code # 0) =>
     /\ pc = "done"
     /\ res.stdout = podLog
     /\ outcome = Threw("BuildError", podLog)

C15_Witness ==
  /\ KanikoRunReturned
  /\ exitcode = 1
  /\ AllTerminated
  /\ podLog = << "denied" >>
  /\ outcome = Threw("BuildError", << "denied" >>)

\* the execs made in the daemon pod by remoteBuild, in order
BuildExecs == SelectSeq(waits, LAMBDA w : w.call \in {"docker build", "docker push"})

\* C16: in cluster-docker mode, when the build exec and the push exec both
\* return exit code 0, exactly one build exec and then exactly one push exec
\* were made, both in the daemon pod that was found, and build returns the
\* build output followed by the push output as buildLog.
C16_DaemonBuildThenPush ==
  (/\ op = "build"
   /\ buildMode = "cluster-docker"
   /\ pc = "done"
   /\ Called("execInBuilder:docker push")
   /\ outcome.error # "TimeoutError"
   /\ buildRes.code = 0
   /\ res.code = 0) =>
     /\ Len(BuildExecs) = 2
     /\ BuildExecs[1].call = "docker build"
     /\ BuildExecs[2].call = "docker push"
     /\ BuildExecs[1].target = podName
     /\ BuildExecs[2].target = podName
     /\ podName \in DaemonPods
     /\ Count("execInBuilder:docker build") = 1
     /\ Count("execInBuilder:docker push") = 1
     /\ Count("getRunningPodInDeployment:garden-docker-daemon") = 1
     /\ outcome.kind = "result"
     /\ outcome.log = buildRes.stdout \o buildRes.stderr \o res.stdout \o res.stderr

C16_Witness ==
  /\ op = "build"
  /\ buildMode = "cluster-docker"
  /\ pc = "done"
  /\ buildRes.stdout = << "step" >>
  /\ res.stderr = << "denied" >>
  /\ outcome.kind = "result"
  /\ outcome.log = << "step", "denied" >>

PodsCreated == Count("startAndWait:kaniko") + Count("startAndWait:skopeo")

\* C18: a pod run deletes the pod it created exactly once on every path: no
\* pod is deleted while it runs, and once the run has returned or thrown to
\* its handler every pod created has been deleted once.
C18_PodDeletedExactlyOnce ==
  /\ Count("deletePod") <= PodsCreated
  /\ PodsCreated <= 1
  /\ podPhase = "running" <=> (PodsCreated = 1 /\ Count("deletePod") = 0)
  /\ (pc = "done" /\ PodsCreated = 1) =>
        (Count("deletePod") = 1 /\ podPhase = "deleted")

C18_Witness ==
  /\ pc = "done"
  /\ Called("startAndWait:kaniko")
  /\ ~AllTerminated
  /\ Count("deletePod") = 1
  /\ outcome.error = "BuildError"

\* the waits of the call that were given the module's build timeout
BuildTimeoutWaits == {i \in 1..Len(waits) : waits[i].timeout = module.timeout}

\* the operation the build timeout belongs to in the configured mode
BoundedOperation == IF buildMode = "cluster-docker" THEN "docker build" ELSE "startAndWait:kaniko"

\* C19: in a remote build call the module's build timeout is given to at most
\* one remote operation, the build exec in cluster-docker mode or the pod run
\* in kaniko mode, to exactly that one once the call has run it, and to no
\* other operation.
C19_BuildTimeoutBoundsOneOperation ==
  (op = "build" /\ buildMode \in RemoteModes) =>
     /\ Cardinality(BuildTimeoutWaits) <= 1
     /\ \A i \in 1..Len(waits) :
          (i \in BuildTimeoutWaits) <=> (waits[i].call = BoundedOperation)
     /\ \A i \in 1..Len(waits) :
          waits[i].call \in {"docker build", "startAndWait:kaniko"} =>
             waits[i].call = BoundedOperation
     /\ outcome.kind = "result" => Cardinality(BuildTimeoutWaits) = 1

C19_Witness ==
  /\ op = "build"
  /\ buildMode = "cluster-docker"
  /\ outcome.kind = "result"
  /\ Len(BuildExecs) = 2
  /\ BuildExecs[1].timeout = module.timeout
  /\ BuildExecs[2].timeout = PushTimeout

\* C20: every blocking remote call of build and getBuildStatus (transfer,
\* build exec, pod run, registry probe, push) is given a timeout.
C20_EveryWaitHasTimeout ==
  \A i \in 1..Len(waits) : waits[i].timeout > 0

\* every a in calls comes before every b
Before(a, b) ==
  \A i, j \in 1..Len(calls) : (calls[i] = a /\ calls[j] = b) => i < j

ContextSyncCalls ==
  {"getPortForward", "buildSyncPod:found", "buildSyncPod:none", "rsync:ok", "rsync:failed"}

BuilderCalls ==
  {"getRunningPodInDeployment:garden-docker-daemon", "execInBuilder:docker build",
   "startAndWait:kaniko"}

\* C21: in a remote build, no step of Context Sync (tunnel, sync pod lookup,
\* transfer) is made for a module without a Dockerfile; for a module with one,
\* every step of Context Sync comes before the daemon pod lookup, the build
\* exec and the builder pod's start, and a transfer has succeeded by then.
C21_ContextSyncBeforeBuilder ==
  (op = "build" /\ buildMode \in RemoteModes) =>
     /\ ~hasDockerfile =>
          /\ \A i \in 1..Len(calls) : calls[i] \notin ContextSyncCalls \cup BuilderCalls
          /\ syncArgs = NoSyncArgs
          /\ attempts = 0
     /\ \A i \in 1..Len(calls) :
          calls[i] \in BuilderCalls =>
             /\ \E j \in 1..(i - 1) : calls[j] = "rsync:ok"
             /\ \A k \in 1..Len(calls) : calls[k] \in ContextSyncCalls => k < i
     /\ podPhase # "none" => Called("rsync:ok")

C21_Witness ==
  /\ op = "build"
  /\ buildMode = "kaniko"
  /\ hasDockerfile
  /\ attempts = 2
  /\ Called("rsync:failed")
  /\ Called("startAndWait:kaniko")
  /\ kanikoPc = "executor"

\* C22: in local mode the image is tagged and pushed only with a deployment
\* registry and a Dockerfile, after the local build, tag before push, each
\* once; with no deployment registry there is no tag and no push, and the
\* image is loaded into the cluster for kind and for microk8s only.
C22_LocalTagThenPush ==
  (op = "build" /\ buildMode = "local-docker") =>
     /\ (Called("docker tag") \/ Called("docker push")) =>
           (deploymentRegistry # "none" /\ hasDockerfile)
     /\ Called("docker tag") =>
           (Called("buildContainerModule") /\ Before("buildContainerModule", "docker tag"))
     /\ Called("docker push") =>
           (Called("docker tag") /\ Before("docker tag", "docker push"))
     /\ Count("docker tag") <= 1
     /\ Count("docker push") <= 1
     /\ Called("loadImageToKind") => (deploymentRegistry = "none" /\ clusterType = "kind")
     /\ Called("loadImageToMicrok8s") =>
           (deploymentRegistry = "none" /\ clusterType = "microk8s")
     /\ (pc = "done" /\ deploymentRegistry = "none") =>
           /\ clusterType = "kind" => Called("loadImageToKind")
           /\ clusterType = "microk8s" => Called("loadImageToMicrok8s")
     /\ (pc = "done" /\ outcome.kind = "result" /\ deploymentRegistry # "none" /\ hasDockerfile) =>
           Called("docker push")

C22_Witness ==
  /\ op = "build"
  /\ buildMode = "local-docker"
  /\ deploymentRegistry = "external"
  /\ hasDockerfile
  /\ pc = "done"
  /\ outcome.kind = "result"
  /\ calls = << "buildContainerModule", "getLocalImageId", "docker tag", "docker push" >>

IsPrefix(a, b) == Len(a) <= Len(b) /\ SubSeq(b, 1, Len(a)) = a

BuildCommandStarted ==
  \/ Called("execInBuilder:docker build")
  \/ Called("startAndWait:kaniko")

\* the build log remoteBuild has captured so far
CapturedBuildLog == IF buildMode = "kaniko" THEN podLog ELSE buildLog

\* C23: every error of a remote build thrown after the build command has
\* started carries the log captured up to then.
C23_FailureCarriesCapturedLog ==
  (/\ op = "build"
   /\ buildMode \in RemoteModes
   /\ BuildCommandStarted
   /\ pc = "done"
   /\ outcome.kind = "error") =>
     IsPrefix(CapturedBuildLog, outcome.log)

\* C27: in cluster-docker mode a probe that exits non-zero with the marker
\* 'no such manifest' anywhere in its captured output, stdout or stderr,
\* gives ready: false and no error.
C27_MarkerAnywhereMeansAbsent ==
  (/\ ProbeRan
   /\ buildMode = "cluster-docker"
   /\ res.code # 0
   /\ Includes(CapturedOutput, "no such manifest")) =>
     outcome = Ready(FALSE)

\* C28: whenever the registry probe of a mode returns a status, ready is true
\* exactly when the tool exited with code 0 (the probe pod succeeded),
\* whether or not the output holds the absent marker.
C28_ReadyIffExitZero ==
  (ProbeRan /\ outcome.kind = "status") =>
     (outcome.ready <=> res.code = 0)

C28_Witness ==
  /\ ProbeRan
  /\ buildMode = "kaniko"
  /\ res.code = 0
  /\ Includes(res.stdout, "manifest unknown")
  /\ outcome = Ready(TRUE)

\* C30: in the builder pod the exit code kept at the executor's end is not
\* changed by creating done or by the exit, and it is the code the completed
\* pod run hands to remoteBuild.
C30_ExitCodeIsExecutors ==
  [][/\ (kanikoPc \in {"touch", "exit", "terminated"}) => exitcode' = exitcode
     /\ (/\ pc = "remote:runKaniko"
         /\ pc' = "done"
         /\ AllTerminated
         /\ outcome'.error # "PodRunnerError") => res'.code = exitcode]_vars

C30_Witness ==
  /\ op = "build"
  /\ kanikoPc = "terminated"
  /\ Ls("done")
  /\ exitcode = 1
  /\ AllTerminated
  /\ pc = "done"
  /\ res.code = 1
  /\ outcome.error = "BuildError"

\* the working copy and module of any other build call on the cluster
Peers == (WorkingCopyIds \X ModuleNames) \ {<< workingCopyId, module.name >>}

\* the directories of the shared volume that a build of that working copy and
\* module syncs to and builds from
StagingDirs(wc, name) ==
  {VolumeDir(RsyncTargetDir(RsyncArgs(wc, name))), VolumeDir(ContextPath(wc, name))}

\* the directories this call has synced to or given to its builder so far
OwnDirs ==
  (IF RsyncCalls > 0 THEN {VolumeDir(RsyncTargetDir(syncArgs))} ELSE {})
    \cup (IF contextPath # << >> THEN {VolumeDir(contextPath)} ELSE {})

\* C24: the directory a remote build syncs to, and the one it builds from, is
\* neither a directory that a build with another (working copy id, module
\* name) pair syncs to or builds from, nor inside or around one.
C24_StagingDirsDisjoint ==
  \A p \in Peers :
    \A own \in OwnDirs :
      \A other \in StagingDirs(p[1], p[2]) :
        ~IsPrefix(own, other) /\ ~IsPrefix(other, own)

C24_Witness ==
  /\ workingCopyId = << "a", "b" >>
  /\ module.name = << "b" >>
  /\ Called("rsync:ok")
  /\ OwnDirs = {<< "a", "b", "/", "b", "/" >>}
  /\ contextPath # << >>
  /\ Called("execInBuilder:docker build")

\* C29: in the builder pod, once the executor has ended with any exit code,
\* and unless the pod run is ended first, done is created, the support
\* container stops the proxy and exits, and all three containers have
\* terminated.
C29_PodWindsDown ==
  (kanikoPc = "touch" /\ podPhase = "running")
     ~> (\/ podPhase # "running"
         \/ /\ AllTerminated
            /\ Ls("done")
            /\ PidofSocat = FALSE)

C29_Witness ==
  /\ podPhase = "running"
  /\ AllTerminated
  /\ Ls("done")
  /\ proxy = "killed"
  /\ exitcode = 1

\* the items of one buffer that were handed to the test handler or POSTed
Delivered(buffer) ==
  UNION {Range(delivered[i].items) : i \in {j \in 1..Len(delivered) : delivered[j].buffer = buffer}}

\* C26: every event and every log entry that is no longer in its buffer was
\* delivered, to the test handler or in a POST to the platform.
C26_FlushedItemsDelivered ==
  /\ \A e \in 1..streamed.events :
       e \in Range(bufferedEvents) \/ e \in Delivered("events")
  /\ \A l \in 1..streamed.logEntries :
       l \in Range(bufferedLogEntries) \/ l \in Delivered("logEntries")

\* the builder was given its context: the docker build exec in the daemon pod
\* or the kaniko pod was started
BuilderGivenContext ==
  \/ Called("execInBuilder:docker build")
  \/ Called("startAndWait:kaniko")

\* C31: in every remote build, the context path given to the builder names the
\* directory of the shared volume, per working copy and per module, that the
\* transfer of Context Sync wrote the module's sources to.
C31_ContextPathIsSyncDir ==
  BuilderGivenContext =>
     /\ Called("rsync:ok")
     /\ VolumeDir(contextPath) = VolumeDir(RsyncTargetDir(syncArgs))
     /\ VolumeDir(contextPath) = workingCopyId \o << "/" >> \o module.name \o << "/" >>

C31_Witness ==
  /\ buildMode = "kaniko"
  /\ Called("startAndWait:kaniko")
  /\ workingCopyId = << "a", "b" >>
  /\ module.name = << "b", "b" >>
  /\ VolumeDir(contextPath) = << "a", "b", "/", "b", "b", "/" >>

\* a registry probe of any mode was made
RegistryProbed ==
  \/ Called("docker manifest inspect")
  \/ Called("execInBuilder:manifest inspect")
  \/ Called("startAndWait:skopeo")

\* C32: in local mode without a deployment registry and with a cluster type
\* other than microk8s, getBuildStatus of a module with a Dockerfile returns
\* the local container build status, ready: true if the image exists locally
\* and ready: false otherwise, and makes no registry probe.
C32_LocalStatusWithoutRegistry ==
  (/\ op = "getBuildStatus"
   /\ buildMode = "local-docker"
   /\ deploymentRegistry = "none"
   /\ clusterType # "microk8s"
   /\ hasDockerfile
   /\ pc = "done") =>
     /\ Called("getContainerBuildStatus")
     /\ outcome = Ready(Called(imageExistsLocally(TRUE)))
     /\ ~RegistryProbed
     /\ waits = << >>

C32_Witness ==
  /\ op = "getBuildStatus"
  /\ buildMode = "local-docker"
  /\ deploymentRegistry = "none"
  /\ clusterType = "kind"
  /\ hasDockerfile
  /\ pc = "done"
  /\ Called(imageExistsLocally(FALSE))
  /\ outcome = Ready(FALSE)

\* C33: a periodic flush removes the oldest events, at most MAX_BATCH_SIZE of
\* them, then the oldest log entries up to what is left of MAX_BATCH_SIZE, so
\* at most MAX_BATCH_SIZE items in all, and leaves every other item of both
\* buffers in its order.
C33_PeriodicFlushBatch ==
  [][IntervalFires =>
       LET events == Len(bufferedEvents) - Len(bufferedEvents')
           logEntries == Len(bufferedLogEntries) - Len(bufferedLogEntries')
       IN  /\ events = Min(Len(bufferedEvents), MAX_BATCH_SIZE)
           /\ logEntries = Min(Len(bufferedLogEntries), MAX_BATCH_SIZE - events)
           /\ events + logEntries <= MAX_BATCH_SIZE
           /\ bufferedEvents' = SubSeq(bufferedEvents, events + 1, Len(bufferedEvents))
           /\ bufferedLogEntries' =
                 SubSeq(bufferedLogEntries, logEntries + 1, Len(bufferedLogEntries))]_vars

\* a periodic flush took 99 events and one log entry of 101
C33_Witness ==
  /\ streamed = [events |-> 99, logEntries |-> MAX_BATCH_SIZE + 1]
  /\ bufferedEvents = << >>
  /\ Len(bufferedLogEntries) = MAX_BATCH_SIZE
  /\ bufferedLogEntries[1] = 2

\* !this.clientAuthToken || !this.platformUrl
NoTokenOrUrl == clientAuthToken = "" \/ platformUrl = ""

\* C34: while the stream has no client auth token or no platform URL, a
\* periodic flush and close leave both buffers as they are, so that what was
\* streamed before is kept.
C34_NoTokenKeepsBuffers ==
  [][(NoTokenOrUrl /\ (IntervalFires \/ close)) =>
       UNCHANGED << bufferedEvents, bufferedLogEntries >>]_vars

\* the timer of a stream without token or URL was stopped by close, and all
\* that was streamed is still buffered
C34_Witness ==
  /\ NoTokenOrUrl
  /\ intervalId = Null
  /\ streamed = [events |-> MaxEvents, logEntries |-> MaxLogEntries]
  /\ Len(bufferedEvents) = MaxEvents
  /\ Len(bufferedLogEntries) = MaxLogEntries

\* C35: when close returns on a stream that has its token and URL, the flush
\* timer is cleared, intervalId is null, and both buffers are empty, however
\* many items they held.
C35_CloseEmptiesBuffers ==
  [][(close /\ ~NoTokenOrUrl) =>
       /\ intervalId' = Null
       /\ ActiveTimers' = {}
       /\ bufferedEvents' = << >>
       /\ bufferedLogEntries' = << >>]_vars

\* close has emptied buffers that held more than one batch each
C35_Witness ==
  /\ ~NoTokenOrUrl
  /\ intervalId = Null
  /\ streamed = [events |-> MAX_BATCH_SIZE + 1, logEntries |-> MAX_BATCH_SIZE + 1]
  /\ bufferedEvents = << >>
  /\ bufferedLogEntries = << >>

\* C36: whatever connect and close calls were made on one stream, at most one
\* of the timers it started is active, and it is the one intervalId holds.
C36_AtMostOneTimer ==
  /\ Cardinality(ActiveTimers) <= 1
  /\ \A i \in ActiveTimers : intervalId = Timer(i)

\* connect, close and connect again: the first timer is cleared, the second runs
C36_Witness ==
  /\ timers = << "cleared", "active" >>
  /\ intervalId = Timer(2)

\* C37: every event and every log entry that is in its buffer while the
\* stream has its token and URL is later out of the buffer, also when it was
\* buffered after close; a stream that is given an empty token or URL
\* meanwhile is excused.
C37_BufferedEventuallyFlushed ==
  /\ \A e \in 1..MaxEvents :
       (~NoTokenOrUrl /\ e \in Range(bufferedEvents))
          ~> (e \notin Range(bufferedEvents) \/ NoTokenOrUrl)
  /\ \A l \in 1..MaxLogEntries :
       (~NoTokenOrUrl /\ l \in Range(bufferedLogEntries))
          ~> (l \notin Range(bufferedLogEntries) \/ NoTokenOrUrl)

RunCalled(name) == \E i \in 1..Len(runCalls) : runCalls[i] = name

\* the test that was asked for is disabled: its module is, or the test is
TestIsDisabled == runInput.found /\ (runInput.moduleDisabled \/ runInput.testDisabled)

\* C38: for a disabled test, without --force the command ends with a
\* CommandError, no dependency task is processed and the test is not run; with
\* --force it does not end so, and the test is run only after its
\* dependencies were processed.
C38_DisabledTestNeedsForce ==
  /\ (TestIsDisabled /\ ~runInput.force) =>
        /\ ~RunCalled("processTasks")
        /\ ~RunCalled("testModule")
        /\ runPc \in {"getConfigGraph", "disabled", "done"}
        /\ runPc = "done" => runOutcome = "CommandError"
  /\ (TestIsDisabled /\ runInput.force) =>
        /\ runOutcome # "CommandError"
        /\ runPc = "done" => RunCalled("processTasks")
        /\ \A i \in 1..Len(runCalls) :
              runCalls[i] = "testModule" =>
                 \E j \in 1..(i - 1) : runCalls[j] = "processTasks"

\* a test that alone is disabled was refused
C38_Witness ==
  /\ runInput.found
  /\ ~runInput.moduleDisabled
  /\ runInput.testDisabled
  /\ ~runInput.force
  /\ runPc = "done"
  /\ runOutcome = "CommandError"

=============================================================================
